---- MODULE Spec2Model ----
(***************************************************************************)
(* OhMyCook: the local-first sync engine of AppContent (App.tsx), the      *)
(* resilient request executor callGeminiApi (services/geminiService.ts)    *)
(* and the two-stage recipe retrieval of RecipeRecommendations.tsx.        *)
(***************************************************************************)
EXTENDS Integers, Sequences, FiniteSets, TLC

\* ------------------------------------------------------------------ bounds
MaxEvents == 3      \* user-driven events (sessions started, local mutations) explored
MaxUiEvents == 4    \* searches and recipe selections explored
MaxLiveEvents == 2  \* user-driven events explored under the fairness conditions
MaxStoreCalls == 3  \* invocations of supabaseService functions explored

\* ------------------------------------------------------------- sync engine
VARIABLES
  currentUser,          \* useLocalStorage('ohmycook-currentUser')
  registered,           \* ids in useLocalStorage('ohmycook-users')
  onboarded,            \* users whose hasCompletedOnboarding is true
  settings, ingredients, savedRecipes, shoppingList,   \* useState values
  ingredientsLoaded, savedRecipesLoaded,               \* the gate flags
  cache,                \* localStorage entries ohmycook-<kind>-<userId>
  remoteIngredients,    \* rows of /user_ingredients per user_id
  remoteSavedRecipes,   \* rows of /user_saved_recipes per user_id
  syncTasks,            \* syncUserData() invocations still in flight
  pushTasks,            \* replaceUser...() invocations still in flight
  nEvents

syncVars == <<currentUser, registered, onboarded, settings, ingredients,
              savedRecipes, shoppingList, ingredientsLoaded, savedRecipesLoaded,
              cache, remoteIngredients, remoteSavedRecipes, syncTasks, pushTasks,
              nEvents>>

\* resilient request executor
VARIABLES
  apiPc,        \* "idle", "fetching", "waiting", "returned", "failed"
  attempt,      \* loop variable of callGeminiApi
  delay,        \* backoff delay in ms
  requests,     \* fetch('/api/gemini') calls issued by this invocation
  responses,    \* what each attempt's fetch produced
  waits,        \* the setTimeout delays slept so far, with the branch that slept
  caught,       \* the error the catch block received on each attempt (<<>> if none)
  apiOutcome    \* the value returned or the error thrown to the caller

apiVars == <<apiPc, attempt, delay, requests, responses, waits, caught, apiOutcome>>

\* two-stage recipe retrieval
VARIABLES
  propIngredients,  \* the ingredients prop of RecipeRecommendations
  recipes, isLoading, error, selectedRecipe, progress,   \* useState values
  stageA,           \* getRecipeRecommendations calls in flight
  stageB,           \* getRecipeDetails calls in flight, with the recipe they close over
  detailCalls,      \* getRecipeDetails calls issued per recipeName since the last search
  selectCount,      \* handleRecipeSelect invocations per recipeName since the last search
  lastOutcome,      \* whether the backend call that settled last resolved or rejected
  nSearches, nUiEvents

uiVars == <<propIngredients, recipes, isLoading, error, selectedRecipe, progress,
            stageA, stageB, detailCalls, selectCount, lastOutcome, nSearches, nUiEvents>>

\* remote persistence client
VARIABLES
  storeBoot,        \* evaluation of supabaseClient.ts: the configuration and the build's supabaseRequest;
                    \* count: the search_count rows held at that time
  userIngredients,  \* rows of public.user_ingredients, in insertion order
  searchCounts,     \* public.recipe_search_counts per recipe_name: <<>> no row, <<n>> search_count
  searchEvents,     \* rows of public.search_events
  storeCalls,       \* invocations of the supabaseService functions that await a request
  lastSettled,      \* the invocation that completed last
  nStoreCalls

storeVars ==
  <<storeBoot, userIngredients, searchCounts, searchEvents, storeCalls, lastSettled, nStoreCalls>>

vars == <<syncVars, apiVars, uiVars, storeVars>>

Users == {"u1", "u2"}
NoUser == "null"
Kinds == {"settings", "ingredients", "savedrecipes", "shoppinglist"}

\* Entries are tagged with the user who created them, so that the origin of
\* every value that reaches memory, a cache key or a remote row is visible.
ItemNames == {"egg"}
OwnItems(u) == {<<u, n>> : n \in ItemNames}
AllItems == UNION {OwnItems(u) : u \in Users}

defaultSettings == <<NoUser, "default">>
CustomSettings(u) == <<u, "custom">>

getUserScopedKey(key, userId) == <<key, userId>>

\* localStorage.getItem(key): <<>> when the entry is absent, <<v>> otherwise.
loadCachedState(c, key, fallback) ==
  IF c[key] = <<>> THEN fallback ELSE c[key][1]

persistCachedState(c, key, value) == [c EXCEPT ![key] = <<value>>]

\* A render: the values the component function sees in one commit.
Render(u, s, ing, saved, shop, il, sl) ==
  [user |-> u, settings |-> s, ingredients |-> ing, savedRecipes |-> saved,
   shoppingList |-> shop, ingredientsLoaded |-> il, savedRecipesLoaded |-> sl]

PersistEffectGated(c, r) ==
  IF r.user = NoUser \/ ~r.ingredientsLoaded THEN c
  ELSE LET c1 == persistCachedState(c, getUserScopedKey("settings", r.user), r.settings)
           c2 == persistCachedState(c1, getUserScopedKey("ingredients", r.user), r.ingredients)
           c3 == persistCachedState(c2, getUserScopedKey("savedrecipes", r.user), r.savedRecipes)
       IN  persistCachedState(c3, getUserScopedKey("shoppinglist", r.user), r.shoppingList)

\* useEffect at App.tsx: persist the four collections under the user's keys.
PersistEffect(c, r) ==
  IF r.user = NoUser THEN c
  ELSE LET c1 == persistCachedState(c, getUserScopedKey("settings", r.user), r.settings)
           c2 == persistCachedState(c1, getUserScopedKey("ingredients", r.user), r.ingredients)
           c3 == persistCachedState(c2, getUserScopedKey("savedrecipes", r.user), r.savedRecipes)
       IN  persistCachedState(c3, getUserScopedKey("shoppinglist", r.user), r.shoppingList)

PushTask(coll, u, data, gate) ==
  [coll |-> coll, user |-> u, data |-> data, stage |-> "delete", gate |-> gate]

PushIngredientsGuardNoGate(r) == r.user # NoUser

PushIngredientsGuard(r) == r.user # NoUser /\ r.ingredientsLoaded

\* useEffect pushIngredients: replaceUserIngredients(currentUser.id, ingredients)
PushIngredientsEffect(r) ==
  IF ~PushIngredientsGuard(r) THEN {}
  ELSE {PushTask("ingredients", r.user, r.ingredients, r.ingredientsLoaded)}

PushSavedRecipesGuard(r) == r.user # NoUser /\ r.savedRecipesLoaded

\* useEffect pushSavedRecipes: replaceUserSavedRecipes(currentUser.id, savedRecipes)
PushSavedRecipesEffect(r) ==
  IF ~PushSavedRecipesGuard(r) THEN {}
  ELSE {PushTask("savedrecipes", r.user, r.savedRecipes, r.savedRecipesLoaded)}

PushEffects(r) == PushIngredientsEffect(r) \cup PushSavedRecipesEffect(r)

SyncTask(id, u) ==
  [id |-> id, user |-> u, stage |-> "profile", ing |-> <<>>, saved |-> <<>>]

\* ---- the commit that follows setCurrentUser(u): effects in declaration order
\* (persist, pushIngredients, pushSavedRecipes, load + syncUserData), then the
\* commit caused by the load effect's own setState calls.
StartSession(u, s, ing, saved, shop) ==
  LET r1 == Render(u, s, ing, saved, shop, ingredientsLoaded, savedRecipesLoaded)
      c1 == PersistEffect(cache, r1)
      p1 == PushEffects(r1)
      s2 == loadCachedState(c1, getUserScopedKey("settings", u), defaultSettings)
      i2 == loadCachedState(c1, getUserScopedKey("ingredients", u), {})
      v2 == loadCachedState(c1, getUserScopedKey("savedrecipes", u), {})
      h2 == loadCachedState(c1, getUserScopedKey("shoppinglist", u), {})
      r2 == Render(u, s2, i2, v2, h2, FALSE, FALSE)
  IN  /\ currentUser' = u
      /\ settings' = s2
      /\ ingredients' = i2
      /\ savedRecipes' = v2
      /\ shoppingList' = h2
      /\ ingredientsLoaded' = FALSE
      /\ savedRecipesLoaded' = FALSE
      /\ cache' = PersistEffect(c1, r2)
      /\ pushTasks' = pushTasks \cup p1 \cup PushEffects(r2)
      /\ syncTasks' = syncTasks \cup {SyncTask(nEvents + 1, u)}
      /\ nEvents' = nEvents + 1

handleLogin(u) ==
  /\ currentUser = NoUser
  /\ u \in registered
  /\ nEvents < MaxEvents
  /\ StartSession(u, settings, ingredients, savedRecipes, shoppingList)
  /\ UNCHANGED <<registered, onboarded, remoteIngredients, remoteSavedRecipes>>
  /\ UNCHANGED <<apiVars, uiVars, storeVars>>

handleSignup(u) ==
  /\ currentUser = NoUser
  /\ u \notin registered
  /\ nEvents < MaxEvents
  /\ registered' = registered \cup {u}
  /\ StartSession(u, settings, ingredients, savedRecipes, shoppingList)
  /\ UNCHANGED <<onboarded, remoteIngredients, remoteSavedRecipes>>
  /\ UNCHANGED <<apiVars, uiVars, storeVars>>

\* handleLogout, then the load effect's !currentUser branch.
handleLogout ==
  /\ currentUser # NoUser
  /\ currentUser' = NoUser
  /\ settings' = defaultSettings
  /\ ingredients' = {}
  /\ savedRecipes' = {}
  /\ shoppingList' = {}
  /\ ingredientsLoaded' = FALSE
  /\ savedRecipesLoaded' = FALSE
  /\ UNCHANGED <<registered, onboarded, cache, remoteIngredients, remoteSavedRecipes,
                 syncTasks, pushTasks, nEvents>>
  /\ UNCHANGED <<apiVars, uiVars, storeVars>>

\* Page reload with a stored currentUser: every useState starts from its
\* initial value, in-flight continuations are gone, all effects run on mount.
RestoreSession ==
  /\ currentUser # NoUser
  /\ nEvents < MaxEvents
  /\ LET u == currentUser
         r1 == Render(u, defaultSettings, {}, {}, {}, FALSE, FALSE)
         c1 == PersistEffect(cache, r1)
         s2 == loadCachedState(c1, getUserScopedKey("settings", u), defaultSettings)
         i2 == loadCachedState(c1, getUserScopedKey("ingredients", u), {})
         v2 == loadCachedState(c1, getUserScopedKey("savedrecipes", u), {})
         h2 == loadCachedState(c1, getUserScopedKey("shoppinglist", u), {})
     IN  /\ settings' = s2
         /\ ingredients' = i2
         /\ savedRecipes' = v2
         /\ shoppingList' = h2
         /\ cache' = PersistEffect(c1, Render(u, s2, i2, v2, h2, FALSE, FALSE))
         /\ syncTasks' = {SyncTask(nEvents + 1, u)}
  /\ ingredientsLoaded' = FALSE
  /\ savedRecipesLoaded' = FALSE
  /\ nEvents' = nEvents + 1
  /\ UNCHANGED <<currentUser, registered, onboarded, remoteIngredients,
                 remoteSavedRecipes, pushTasks>>
  /\ UNCHANGED <<apiVars, uiVars, storeVars>>

\* ---- local mutations (only reachable while a user is logged in)
\* setIngredients as handed to IngredientManager: add or remove one entry.
setIngredients(item) ==
  /\ currentUser # NoUser
  /\ nEvents < MaxEvents
  /\ item \in OwnItems(currentUser) \cup ingredients
  /\ LET new == IF item \in ingredients THEN ingredients \ {item} ELSE ingredients \cup {item}
         r == Render(currentUser, settings, new, savedRecipes, shoppingList,
                     ingredientsLoaded, savedRecipesLoaded)
     IN  /\ ingredients' = new
         /\ cache' = PersistEffect(cache, r)
         /\ pushTasks' = pushTasks \cup PushIngredientsEffect(r)
  /\ nEvents' = nEvents + 1
  /\ UNCHANGED <<currentUser, registered, onboarded, settings, savedRecipes, shoppingList,
                 ingredientsLoaded, savedRecipesLoaded, remoteIngredients,
                 remoteSavedRecipes, syncTasks>>
  /\ UNCHANGED <<apiVars, uiVars, storeVars>>

handleToggleSaveRecipe(recipe) ==
  /\ currentUser # NoUser
  /\ nEvents < MaxEvents
  /\ recipe \in OwnItems(currentUser) \cup savedRecipes
  /\ LET new == IF recipe \in savedRecipes THEN savedRecipes \ {recipe}
                ELSE savedRecipes \cup {recipe}
         r == Render(currentUser, settings, ingredients, new, shoppingList,
                     ingredientsLoaded, savedRecipesLoaded)
     IN  /\ savedRecipes' = new
         /\ cache' = PersistEffect(cache, r)
         /\ pushTasks' = pushTasks \cup PushSavedRecipesEffect(r)
  /\ nEvents' = nEvents + 1
  /\ UNCHANGED <<currentUser, registered, onboarded, settings, ingredients, shoppingList,
                 ingredientsLoaded, savedRecipesLoaded, remoteIngredients,
                 remoteSavedRecipes, syncTasks>>
  /\ UNCHANGED <<apiVars, uiVars, storeVars>>

handleToggleShoppingListItem(item) ==
  /\ currentUser # NoUser
  /\ nEvents < MaxEvents
  /\ item \in OwnItems(currentUser) \cup shoppingList
  /\ LET new == IF item \in shoppingList THEN shoppingList \ {item}
                ELSE shoppingList \cup {item}
         r == Render(currentUser, settings, ingredients, savedRecipes, new,
                     ingredientsLoaded, savedRecipesLoaded)
     IN  /\ shoppingList' = new
         /\ cache' = PersistEffect(cache, r)
  /\ nEvents' = nEvents + 1
  /\ UNCHANGED <<currentUser, registered, onboarded, settings, ingredients, savedRecipes,
                 ingredientsLoaded, savedRecipesLoaded, remoteIngredients,
                 remoteSavedRecipes, syncTasks, pushTasks>>
  /\ UNCHANGED <<apiVars, uiVars, storeVars>>

\* handleSaveSettings(newSettings, initialIngredients); completing onboarding
\* replaces the currentUser object, which re-runs every effect that depends on it.
handleSaveSettings(newSettings, initialIngredients) ==
  /\ currentUser # NoUser
  /\ nEvents < MaxEvents
  /\ LET new == ingredients \cup initialIngredients
         completes == currentUser \notin onboarded /\ initialIngredients # {}
     IN  IF completes
         THEN /\ onboarded' = onboarded \cup {currentUser}
              /\ StartSession(currentUser, newSettings, new, savedRecipes, shoppingList)
         ELSE LET r == Render(currentUser, newSettings, new, savedRecipes, shoppingList,
                              ingredientsLoaded, savedRecipesLoaded)
              IN  /\ settings' = newSettings
                  /\ ingredients' = new
                  /\ cache' = PersistEffect(cache, r)
                  /\ pushTasks' = pushTasks \cup
                        (IF initialIngredients # {} THEN PushIngredientsEffect(r) ELSE {})
                  /\ UNCHANGED <<currentUser, onboarded, savedRecipes, shoppingList,
                                 ingredientsLoaded, savedRecipesLoaded, syncTasks>>
  /\ nEvents' = nEvents + 1
  /\ UNCHANGED <<registered, remoteIngredients, remoteSavedRecipes>>
  /\ UNCHANGED <<apiVars, uiVars, storeVars>>

SyncApplyMerge(t, ing, saved) ==
  LET r == Render(currentUser, settings, ingredients \cup ing, savedRecipes \cup saved,
                  shoppingList, TRUE, TRUE)
  IN  /\ ingredients' = ingredients \cup ing
      /\ savedRecipes' = savedRecipes \cup saved
      /\ ingredientsLoaded' = TRUE
      /\ savedRecipesLoaded' = TRUE
      /\ cache' = PersistEffect(cache, r)
      /\ pushTasks' = pushTasks \cup PushEffects(r)
      /\ syncTasks' = syncTasks \ {t}
      /\ UNCHANGED <<currentUser, registered, onboarded, settings, shoppingList,
                     remoteIngredients, remoteSavedRecipes, nEvents>>

\* ---- syncUserData(): await saveUserProfile, await Promise.all(fetches), set state
\* The continuation after the last await: setIngredients, setSavedRecipes and the
\* finally block, then the effects of the resulting commit.
SyncApply(t, ing, saved) ==
  LET r == Render(currentUser, settings, ing, saved, shoppingList, TRUE, TRUE)
  IN  /\ ingredients' = ing
      /\ savedRecipes' = saved
      /\ ingredientsLoaded' = TRUE
      /\ savedRecipesLoaded' = TRUE
      /\ cache' = PersistEffect(cache, r)
      /\ pushTasks' = pushTasks \cup PushEffects(r)
      /\ syncTasks' = syncTasks \ {t}
      /\ UNCHANGED <<currentUser, registered, onboarded, settings, shoppingList,
                     remoteIngredients, remoteSavedRecipes, nEvents>>

SyncProfileSaved(t) ==
  /\ t \in syncTasks /\ t.stage = "profile"
  /\ syncTasks' = (syncTasks \ {t}) \cup {[t EXCEPT !.stage = "fetch"]}
  /\ UNCHANGED <<currentUser, registered, onboarded, settings, ingredients, savedRecipes,
                 shoppingList, ingredientsLoaded, savedRecipesLoaded, cache,
                 remoteIngredients, remoteSavedRecipes, pushTasks, nEvents>>
  /\ UNCHANGED <<apiVars, uiVars, storeVars>>

SyncProfileFailedNoFinally(t) ==
  /\ t \in syncTasks /\ t.stage = "profile"
  /\ syncTasks' = syncTasks \ {t}
  /\ UNCHANGED <<currentUser, registered, onboarded, settings, ingredients, savedRecipes,
                 shoppingList, ingredientsLoaded, savedRecipesLoaded, cache,
                 remoteIngredients, remoteSavedRecipes, pushTasks, nEvents>>
  /\ UNCHANGED <<apiVars, uiVars, storeVars>>

\* saveUserProfile rejects: catch logs, finally flips both gates.
SyncProfileFailed(t) ==
  /\ t \in syncTasks /\ t.stage = "profile"
  /\ LET r == Render(currentUser, settings, ingredients, savedRecipes, shoppingList, TRUE, TRUE)
     IN  /\ ingredientsLoaded' = TRUE
         /\ savedRecipesLoaded' = TRUE
         /\ pushTasks' = pushTasks
               \cup (IF ingredientsLoaded THEN {} ELSE PushIngredientsEffect(r))
               \cup (IF savedRecipesLoaded THEN {} ELSE PushSavedRecipesEffect(r))
  /\ syncTasks' = syncTasks \ {t}
  /\ UNCHANGED <<currentUser, registered, onboarded, settings, ingredients, savedRecipes,
                 shoppingList, cache, remoteIngredients, remoteSavedRecipes,
                 nEvents>>
  /\ UNCHANGED <<apiVars, uiVars, storeVars>>

\* getUserIngredients(t.user).catch(() => []) settles.
SyncFetchedIngredients(t, ok) ==
  /\ t \in syncTasks /\ t.stage = "fetch" /\ t.ing = <<>>
  /\ LET rows == IF ok THEN remoteIngredients[t.user] ELSE {}
     IN  IF t.saved # <<>>
         THEN SyncApply(t, rows, t.saved[1])
         ELSE /\ syncTasks' = (syncTasks \ {t}) \cup {[t EXCEPT !.ing = <<rows>>]}
              /\ UNCHANGED <<currentUser, registered, onboarded, settings, ingredients,
                             savedRecipes, shoppingList, ingredientsLoaded,
                             savedRecipesLoaded, cache, remoteIngredients,
                             remoteSavedRecipes, pushTasks, nEvents>>
  /\ UNCHANGED <<apiVars, uiVars, storeVars>>

\* getUserSavedRecipes(t.user).catch(() => []) settles.
SyncFetchedSavedRecipes(t, ok) ==
  /\ t \in syncTasks /\ t.stage = "fetch" /\ t.saved = <<>>
  /\ LET rows == IF ok THEN remoteSavedRecipes[t.user] ELSE {}
     IN  IF t.ing # <<>>
         THEN SyncApply(t, t.ing[1], rows)
         ELSE /\ syncTasks' = (syncTasks \ {t}) \cup {[t EXCEPT !.saved = <<rows>>]}
              /\ UNCHANGED <<currentUser, registered, onboarded, settings, ingredients,
                             savedRecipes, shoppingList, ingredientsLoaded,
                             savedRecipesLoaded, cache, remoteIngredients,
                             remoteSavedRecipes, pushTasks, nEvents>>
  /\ UNCHANGED <<apiVars, uiVars, storeVars>>

\* ---- replaceUserIngredients / replaceUserSavedRecipes: DELETE, then bulk INSERT
ReplaceDeleted(t) ==
  IF t.data = {} THEN pushTasks \ {t}
  ELSE (pushTasks \ {t}) \cup {[t EXCEPT !.stage = "insert"]}

replaceUserIngredientsDelete(t) ==
  /\ t \in pushTasks /\ t.coll = "ingredients" /\ t.stage = "delete"
  /\ remoteIngredients' = [remoteIngredients EXCEPT ![t.user] = {}]
  /\ pushTasks' = ReplaceDeleted(t)
  /\ UNCHANGED <<currentUser, registered, onboarded, settings, ingredients, savedRecipes,
                 shoppingList, ingredientsLoaded, savedRecipesLoaded, cache,
                 remoteSavedRecipes, syncTasks, nEvents>>
  /\ UNCHANGED <<apiVars, uiVars, storeVars>>

replaceUserIngredientsInsert(t) ==
  /\ t \in pushTasks /\ t.coll = "ingredients" /\ t.stage = "insert"
  /\ remoteIngredients' = [remoteIngredients EXCEPT ![t.user] = @ \cup t.data]
  /\ pushTasks' = pushTasks \ {t}
  /\ UNCHANGED <<currentUser, registered, onboarded, settings, ingredients, savedRecipes,
                 shoppingList, ingredientsLoaded, savedRecipesLoaded, cache,
                 remoteSavedRecipes, syncTasks, nEvents>>
  /\ UNCHANGED <<apiVars, uiVars, storeVars>>

replaceUserSavedRecipesDelete(t) ==
  /\ t \in pushTasks /\ t.coll = "savedrecipes" /\ t.stage = "delete"
  /\ remoteSavedRecipes' = [remoteSavedRecipes EXCEPT ![t.user] = {}]
  /\ pushTasks' = ReplaceDeleted(t)
  /\ UNCHANGED <<currentUser, registered, onboarded, settings, ingredients, savedRecipes,
                 shoppingList, ingredientsLoaded, savedRecipesLoaded, cache,
                 remoteIngredients, syncTasks, nEvents>>
  /\ UNCHANGED <<apiVars, uiVars, storeVars>>

replaceUserSavedRecipesInsert(t) ==
  /\ t \in pushTasks /\ t.coll = "savedrecipes" /\ t.stage = "insert"
  /\ remoteSavedRecipes' = [remoteSavedRecipes EXCEPT ![t.user] = @ \cup t.data]
  /\ pushTasks' = pushTasks \ {t}
  /\ UNCHANGED <<currentUser, registered, onboarded, settings, ingredients, savedRecipes,
                 shoppingList, ingredientsLoaded, savedRecipesLoaded, cache,
                 remoteIngredients, syncTasks, nEvents>>
  /\ UNCHANGED <<apiVars, uiVars, storeVars>>

\* A request of a replace rejects: the push effect's catch logs and drops it.
PushFailed(t) ==
  /\ t \in pushTasks
  /\ pushTasks' = pushTasks \ {t}
  /\ UNCHANGED <<currentUser, registered, onboarded, settings, ingredients, savedRecipes,
                 shoppingList, ingredientsLoaded, savedRecipesLoaded, cache,
                 remoteIngredients, remoteSavedRecipes, syncTasks, nEvents>>
  /\ UNCHANGED <<apiVars, uiVars, storeVars>>

InitSync ==
  /\ currentUser = NoUser
  /\ registered = {}
  /\ onboarded = {}
  /\ settings = defaultSettings
  /\ ingredients = {}
  /\ savedRecipes = {}
  /\ shoppingList = {}
  /\ ingredientsLoaded = FALSE
  /\ savedRecipesLoaded = FALSE
  /\ cache = [k \in Kinds \X Users |-> <<>>]
  /\ remoteIngredients = [u \in Users |-> {}]
  /\ remoteSavedRecipes = [u \in Users |-> {}]
  /\ syncTasks = {}
  /\ pushTasks = {}
  /\ nEvents = 0

NextSync ==
  \/ \E u \in Users : handleLogin(u)
  \/ \E u \in Users : handleSignup(u)
  \/ handleLogout
  \/ RestoreSession
  \/ \E i \in AllItems : setIngredients(i)
  \/ \E i \in AllItems : handleToggleSaveRecipe(i)
  \/ \E i \in AllItems : handleToggleShoppingListItem(i)
  \/ \E s \in {CustomSettings(currentUser)},
        init \in SUBSET OwnItems(currentUser) : handleSaveSettings(s, init)
  \/ \E t \in syncTasks : SyncProfileSaved(t)
  \/ \E t \in syncTasks : SyncProfileFailed(t)
  \/ \E t \in syncTasks, ok \in BOOLEAN : SyncFetchedIngredients(t, ok)
  \/ \E t \in syncTasks, ok \in BOOLEAN : SyncFetchedSavedRecipes(t, ok)
  \/ \E t \in pushTasks : replaceUserIngredientsDelete(t)
  \/ \E t \in pushTasks : replaceUserIngredientsInsert(t)
  \/ \E t \in pushTasks : replaceUserSavedRecipesDelete(t)
  \/ \E t \in pushTasks : replaceUserSavedRecipesInsert(t)
  \/ \E t \in pushTasks : PushFailed(t)

\* ------------------------------------------------ resilient request executor
MaxRetriesFour == 3 + 1

MAX_RETRIES == 3
InitialDelay == 1000

Statuses == {"500", "503"}

\* Error messages of a JSON error body, as token sequences; <<>> is the empty
\* or missing error field (errorData.error || '').
ErrorMessages ==
  { <<>>,
    <<"model", "overloaded", "(", "503", ")">>,
    <<"The", "model", "is", "overloaded">>,
    <<"503", "Service", "Unavailable">>,
    <<"quota", "exceeded">> }

\* String.prototype.includes on the token sequence.
Includes(msg, token) == \E k \in 1..Len(msg) : msg[k] = token

\* What one fetch can produce: a 2xx response whose body parses or not, a
\* non-2xx response with a non-JSON body (possibly empty), a non-2xx response
\* with a JSON body, or a rejection (an Error or some other thrown value).
Responses ==
  {[kind |-> "ok", status |-> "200", parses |-> p, text |-> <<>>, error |-> <<>>,
     isError |-> FALSE] : p \in BOOLEAN}
  \cup {[kind |-> "http", status |-> st, parses |-> FALSE, text |-> tx, error |-> <<>>,
          isError |-> FALSE] : st \in Statuses, tx \in {<<>>, <<"<html>timeout</html>">>}}
  \cup {[kind |-> "http", status |-> st, parses |-> TRUE, text |-> <<"json">>, error |-> m,
          isError |-> FALSE] : st \in Statuses, m \in ErrorMessages}
  \cup {[kind |-> "reject", status |-> "0", parses |-> FALSE, text |-> <<>>, error |-> <<>>,
          isError |-> e] : e \in BOOLEAN}

JsError(message, born) == [isError |-> TRUE, message |-> message, born |-> born]
ThrownValue(born) == [isError |-> FALSE, message |-> <<"thrown value">>, born |-> born]
StatusMessage(status) == <<"API call failed with status:", status>>
GenericError == JsError(<<"An unknown error occurred during the API call.">>, 0)
FallThroughError == JsError(<<"API call failed after all retries.">>, 0)
ResultEnvelope(a) == [result |-> "body", attempt |-> a]

\* errorText || `API call failed with status: ...`
OrStatus(message, status) == IF message = <<>> THEN StatusMessage(status) ELSE message

isRetryable(errorMessage) ==
  Includes(errorMessage, "overloaded") \/ Includes(errorMessage, "503")

\* for (let attempt = 1; attempt <= MAX_RETRIES; attempt++)
LoopContinues(a) == a <= MAX_RETRIES

\* attempt < MAX_RETRIES, as tested in the try block and in the catch block
AttemptsRemain(a) == a < MAX_RETRIES

OkBranchThrows(r, a) == [do |-> "throw", err |-> JsError(<<"SyntaxError">>, a)]

\* if (response.ok) return await response.json();
OkBranch(r, a) ==
  IF r.parses THEN [do |-> "return", err |-> GenericError]
  ELSE [do |-> "throw", err |-> JsError(<<"SyntaxError">>, a)]

\* The try block of one iteration, for the response r of attempt a:
\* "return" a value, "retry" after a wait, or "throw" into the catch block.
TryBlock(r, a) ==
  IF r.kind = "reject"
  THEN [do |-> "throw", err |-> IF r.isError THEN JsError(<<"Failed to fetch">>, a)
                                ELSE ThrownValue(a)]
  ELSE IF r.kind = "ok"
  THEN OkBranch(r, a)
  ELSE IF ~r.parses
  THEN [do |-> "throw", err |-> JsError(OrStatus(r.text, r.status), a)]
  ELSE IF isRetryable(r.error) /\ AttemptsRemain(a)
  THEN [do |-> "retry", err |-> GenericError]
  ELSE [do |-> "throw", err |-> JsError(OrStatus(r.error, r.status), a)]

RethrownGeneric(err) == GenericError

\* The last branch of the catch block: what is thrown to the caller.
Rethrown(err) == IF err.isError THEN err ELSE GenericError

NextDelaySame(d) == d

\* delay *= 2
NextDelay(d) == d * 2

callGeminiApi ==
  /\ apiPc = "idle"
  /\ apiPc' = "fetching"
  /\ attempt' = 1
  /\ delay' = InitialDelay
  /\ requests' = 1
  /\ UNCHANGED <<responses, waits, caught, apiOutcome>>
  /\ UNCHANGED <<syncVars, uiVars, storeVars>>

\* The fetch of the current attempt settles with r; the iteration runs up to
\* its return, its throw to the caller, or its setTimeout.
FetchSettled(r) ==
  /\ apiPc = "fetching"
  /\ responses' = Append(responses, r)
  /\ LET t == TryBlock(r, attempt)
     IN  CASE t.do = "return" ->
                /\ apiPc' = "returned"
                /\ apiOutcome' = <<ResultEnvelope(attempt)>>
                /\ caught' = Append(caught, <<>>)
                /\ UNCHANGED waits
           [] t.do = "retry" ->
                /\ apiPc' = "waiting"
                /\ waits' = Append(waits, [ms |-> delay, branch |-> "overloaded"])
                /\ caught' = Append(caught, <<>>)
                /\ UNCHANGED apiOutcome
           [] t.do = "throw" /\ AttemptsRemain(attempt) ->
                /\ apiPc' = "waiting"
                /\ waits' = Append(waits, [ms |-> delay, branch |-> "catch"])
                /\ caught' = Append(caught, <<t.err>>)
                /\ UNCHANGED apiOutcome
           [] t.do = "throw" /\ ~AttemptsRemain(attempt) ->
                /\ apiPc' = "failed"
                /\ apiOutcome' = <<Rethrown(t.err)>>
                /\ caught' = Append(caught, <<t.err>>)
                /\ UNCHANGED waits
  /\ UNCHANGED <<attempt, delay, requests>>
  /\ UNCHANGED <<syncVars, uiVars, storeVars>>

\* The timer fires: delay doubles, the loop advances and issues the next fetch.
WaitElapsed ==
  /\ apiPc = "waiting"
  /\ delay' = NextDelay(delay)
  /\ attempt' = attempt + 1
  /\ IF LoopContinues(attempt + 1)
     THEN /\ apiPc' = "fetching"
          /\ requests' = requests + 1
          /\ UNCHANGED apiOutcome
     ELSE /\ apiPc' = "failed"
          /\ apiOutcome' = <<FallThroughError>>
          /\ UNCHANGED requests
  /\ UNCHANGED <<responses, waits, caught>>
  /\ UNCHANGED <<syncVars, uiVars, storeVars>>

InitApi ==
  /\ apiPc = "idle"
  /\ attempt = 0
  /\ delay = 0
  /\ requests = 0
  /\ responses = <<>>
  /\ waits = <<>>
  /\ caught = <<>>
  /\ apiOutcome = <<>>

NextApi ==
  \/ callGeminiApi
  \/ \E r \in Responses : FetchSettled(r)
  \/ WaitElapsed

\* ------------------------------------------- two-stage recipe retrieval (UI)
RecipeNames == {"Kimchi Stew", "Egg Roll"}
NoRecipe == <<>>
NoError == "null"

totalDuration == 5000
intervalDuration == 100
\* progress is kept in tenths of a percent: increment = 95 / steps = 1.9
ProgressIncrement == (950 * intervalDuration) \div totalDuration
ProgressCap == 950
ProgressDone == 1000

\* JSON.parse(jsonText): the entries the model generated for position pos of
\* search; the overview fields are abstracted to <<search, pos>>, and an entry
\* may carry detail fields although the prompt asks for none.
GeneratedRecipes(search, pos) ==
  {[recipeName |-> n, overview |-> <<search, pos>>, instructions |-> d,
    substitutions |-> d, isDetailsLoaded |-> l] :
      n \in RecipeNames, d \in {<<>>, <<"generated">>}, l \in BOOLEAN}

OverviewAsGenerated(r) == r

\* recipes.map(r => ({...r, instructions: [], substitutions: [], isDetailsLoaded: false}))
Overview(r) ==
  [r EXCEPT !.instructions = <<>>, !.substitutions = <<>>, !.isDetailsLoaded = FALSE]

\* Result sets of a search: up to two recipes, names may collide.
ResultSets(search) ==
  {<<>>}
  \cup {<<Overview(r)>> : r \in GeneratedRecipes(search, 1)}
  \cup {<<Overview(r), Overview(q)>> :
           r \in GeneratedRecipes(search, 1), q \in GeneratedRecipes(search, 2)}

updatedRecipeMixed(recipe, details) ==
  [recipe EXCEPT !.instructions = details, !.isDetailsLoaded = TRUE]

\* { ...recipe, ...details, isDetailsLoaded: true }; details carries
\* ingredients, instructions and substitutions (recipeDetailSchema).
updatedRecipe(recipe, details) ==
  [recipe EXCEPT !.instructions = details, !.substitutions = details,
                 !.isDetailsLoaded = TRUE]

MapRecipesResetsOthers(list, name, updated) ==
  [k \in 1..Len(list) |-> IF list[k].recipeName = name THEN updated ELSE Overview(list[k])]

\* prev.map(r => r.recipeName === recipe.recipeName ? updatedRecipe : r)
MapRecipes(list, name, updated) ==
  [k \in 1..Len(list) |-> IF list[k].recipeName = name THEN updated ELSE list[k]]

\* The isLoading effect at the commit where isLoading became false.
ProgressAfterLoading(p) == IF p > 0 /\ p < ProgressDone THEN ProgressDone ELSE p

handleFetchRecipes ==
  /\ ~isLoading
  /\ nUiEvents < MaxUiEvents
  /\ nUiEvents' = nUiEvents + 1
  /\ IF propIngredients = {}
     THEN /\ error' = "addIngredientsFirst"
          /\ UNCHANGED <<recipes, isLoading, progress, stageA, detailCalls, selectCount,
                         nSearches>>
     ELSE /\ isLoading' = TRUE
          /\ error' = NoError
          /\ recipes' = <<>>
          /\ progress' = 0
          /\ nSearches' = nSearches + 1
          /\ stageA' = stageA \cup {nSearches + 1}
          /\ detailCalls' = [n \in RecipeNames |-> 0]
          /\ selectCount' = [n \in RecipeNames |-> 0]
  /\ UNCHANGED <<propIngredients, selectedRecipe, stageB, lastOutcome>>
  /\ UNCHANGED <<syncVars, apiVars, storeVars>>

\* window.setInterval callback while isLoading
ProgressTick ==
  /\ isLoading
  /\ progress < ProgressCap
  /\ progress' = progress + ProgressIncrement
  /\ UNCHANGED <<propIngredients, recipes, isLoading, error, selectedRecipe, stageA, stageB,
                 detailCalls, selectCount, lastOutcome, nSearches, nUiEvents>>
  /\ UNCHANGED <<syncVars, apiVars, storeVars>>

ErrorAfterResultKept(result, err) == err

\* if (result.length === 0) setError(t('noRecipesFound'))
ErrorAfterResult(result, err) == IF Len(result) = 0 THEN "noRecipesFound" ELSE err

\* await getRecipeRecommendations(...) resolves: the rest of the try block, then finally.
StageAResolved(id, result) ==
  /\ id \in stageA
  /\ stageA' = stageA \ {id}
  /\ recipes' = result
  /\ error' = ErrorAfterResult(result, error)
  /\ isLoading' = FALSE
  /\ progress' = ProgressAfterLoading(progress)
  /\ lastOutcome' = "resolved"
  /\ UNCHANGED <<propIngredients, selectedRecipe, stageB, detailCalls, selectCount,
                 nSearches, nUiEvents>>
  /\ UNCHANGED <<syncVars, apiVars, storeVars>>

\* What getRecipeRecommendations can reject with: the Errors callGeminiApi throws.
StageAErrors ==
  {[isError |-> TRUE, message |-> m] : m \in {"Failed to fetch", "quota exceeded"}}

CaughtMessageDropped(err) == NoError

\* err instanceof Error ? err.message : 'An unknown error occurred.'
CaughtMessage(err) == IF err.isError THEN err.message ELSE "An unknown error occurred."

\* await getRecipeRecommendations(...) rejects: catch, then finally.
StageARejected(id, err) ==
  /\ id \in stageA
  /\ stageA' = stageA \ {id}
  /\ error' = CaughtMessage(err)
  /\ isLoading' = FALSE
  /\ progress' = ProgressAfterLoading(progress)
  /\ lastOutcome' = "rejected"
  /\ UNCHANGED <<propIngredients, recipes, selectedRecipe, stageB, detailCalls, selectCount,
                 nSearches, nUiEvents>>
  /\ UNCHANGED <<syncVars, apiVars, storeVars>>

NeedsDetailsAlways(recipe) == TRUE

\* if (!recipe.isDetailsLoaded)
NeedsDetails(recipe) == ~recipe.isDetailsLoaded

RenderedCardsWhileLoading ==
  IF isLoading THEN <<Overview(CHOOSE r \in GeneratedRecipes(nSearches, 1) : TRUE)>>
  ELSE recipes

\* {!isLoading && progress === 100 && (recipes.map(... <RecipeCard onSelect ... />))}
RenderedCards == IF ~isLoading /\ progress = ProgressDone THEN recipes ELSE <<>>

\* onSelect of the k-th rendered RecipeCard
handleRecipeSelect(k) ==
  /\ k \in 1..Len(RenderedCards)
  /\ nUiEvents < MaxUiEvents
  /\ nUiEvents' = nUiEvents + 1
  /\ LET recipe == RenderedCards[k]
     IN  /\ selectedRecipe' = <<recipe>>
         /\ selectCount' = [selectCount EXCEPT ![recipe.recipeName] = @ + 1]
         /\ IF NeedsDetails(recipe)
            THEN /\ stageB' = stageB \cup {[call |-> nUiEvents + 1, recipe |-> recipe]}
                 /\ detailCalls' = [detailCalls EXCEPT ![recipe.recipeName] = @ + 1]
            ELSE UNCHANGED <<stageB, detailCalls>>
  /\ UNCHANGED <<propIngredients, recipes, isLoading, error, progress, stageA, lastOutcome,
                 nSearches>>
  /\ UNCHANGED <<syncVars, apiVars, storeVars>>

\* await getRecipeDetails(...) resolves: setSelectedRecipe, setRecipes(prev => prev.map(...))
StageBResolved(t) ==
  /\ t \in stageB
  /\ stageB' = stageB \ {t}
  /\ LET updated == updatedRecipe(t.recipe, <<"details", t.call>>)
     IN  /\ selectedRecipe' = <<updated>>
         /\ recipes' = MapRecipes(recipes, t.recipe.recipeName, updated)
  /\ lastOutcome' = "resolved"
  /\ UNCHANGED <<propIngredients, isLoading, error, progress, stageA, detailCalls,
                 selectCount, nSearches, nUiEvents>>
  /\ UNCHANGED <<syncVars, apiVars, storeVars>>

DetailsFailureDropsCard(list, recipe) ==
  SelectSeq(list, LAMBDA r : r.recipeName # recipe.recipeName)

\* catch (error) { console.error(...) }: no setRecipes call, the list stays as it is.
DetailsFailureKeepsList(list, recipe) == list

\* await getRecipeDetails(...) rejects: the catch block only logs.
StageBRejected(t) ==
  /\ t \in stageB
  /\ stageB' = stageB \ {t}
  /\ recipes' = DetailsFailureKeepsList(recipes, t.recipe)
  /\ lastOutcome' = "rejected"
  /\ UNCHANGED <<propIngredients, isLoading, error, selectedRecipe, progress,
                 stageA, detailCalls, selectCount, nSearches, nUiEvents>>
  /\ UNCHANGED <<syncVars, apiVars, storeVars>>

\* onClose of RecipeDetailModal
CloseModal ==
  /\ selectedRecipe # NoRecipe
  /\ selectedRecipe' = NoRecipe
  /\ UNCHANGED <<propIngredients, recipes, isLoading, error, progress, stageA, stageB,
                 detailCalls, selectCount, lastOutcome, nSearches, nUiEvents>>
  /\ UNCHANGED <<syncVars, apiVars, storeVars>>

\* AppContent re-renders the component with a changed pantry.
IngredientsPropChanged ==
  /\ propIngredients' = IF propIngredients = {} THEN {"egg"} ELSE {}
  /\ UNCHANGED <<recipes, isLoading, error, selectedRecipe, progress, stageA, stageB,
                 detailCalls, selectCount, lastOutcome, nSearches, nUiEvents>>
  /\ UNCHANGED <<syncVars, apiVars, storeVars>>

InitUi ==
  /\ propIngredients = {}
  /\ recipes = <<>>
  /\ isLoading = FALSE
  /\ error = NoError
  /\ selectedRecipe = NoRecipe
  /\ progress = 0
  /\ stageA = {}
  /\ stageB = {}
  /\ detailCalls = [n \in RecipeNames |-> 0]
  /\ selectCount = [n \in RecipeNames |-> 0]
  /\ lastOutcome = "none"
  /\ nSearches = 0
  /\ nUiEvents = 0

NextUi ==
  \/ handleFetchRecipes
  \/ ProgressTick
  \/ \E id \in stageA : \E result \in ResultSets(id) : StageAResolved(id, result)
  \/ \E id \in stageA : \E err \in StageAErrors : StageARejected(id, err)
  \/ \E k \in 1..2 : handleRecipeSelect(k)
  \/ \E t \in stageB : StageBResolved(t)
  \/ \E t \in stageB : StageBRejected(t)
  \/ CloseModal
  \/ IngredientsPropChanged

\* ------------------------------------------------ remote persistence client
\* The functions of services/supabaseService.ts over supabaseRequest and
\* handleResponse of services/supabaseClient.ts, against the tables of the README.
StoreUser == "u1"
OtherUser == "u2"
Egg == [name |-> "Egg", quantity |-> "2"]
Milk == [name |-> "Milk", quantity |-> "1"]
ItemLists == {<<>>, <<Egg>>}

\* ingredients.map(ingredient => ({ user_id, ingredient_name, quantity }))
IngredientRecords(userId, list) ==
  [k \in 1..Len(list) |->
     [user_id |-> userId, ingredient_name |-> list[k].name, quantity |-> list[k].quantity]]

\* What public.user_ingredients and public.recipe_search_counts may hold when
\* the client starts: nothing, or a pantry per user and a counted recipe.
StoredTables ==
  { [rows |-> <<>>, count |-> <<>>],
    [rows |-> IngredientRecords(StoreUser, <<Egg>>) \o IngredientRecords(OtherUser, <<Milk>>),
     count |-> <<5>>] }

\* /user_ingredients?user_id=eq.<userId>
PantryOf(rows, userId) == SelectSeq(rows, LAMBDA row : row.user_id = userId)

PantryAfterDeleteKept(rows, userId) == rows

\* DELETE /user_ingredients?user_id=eq.<userId>
PantryAfterDelete(rows, userId) == SelectSeq(rows, LAMBDA row : row.user_id # userId)

\* Recipe names as sequences of tokens, " " being white space.
RecipeNameInputs == {<<"Kimchi Stew">>, <<" ", "Kimchi Stew", " ">>}

RECURSIVE trimStart(_)
trimStart(str) == IF str # <<>> /\ Head(str) = " " THEN trimStart(Tail(str)) ELSE str

RECURSIVE trimEnd(_)
trimEnd(str) ==
  IF str # <<>> /\ str[Len(str)] = " " THEN trimEnd(SubSeq(str, 1, Len(str) - 1)) ELSE str

\* String.prototype.trim
trim(str) == trimEnd(trimStart(str))

RecipeLabels == {trim(n) : n \in RecipeNameInputs}

\* JavaScript values a request or a function yields: undefined, or an array of rows.
Undefined == [t |-> "undefined", v |-> <<>>]
Rows(v) == [t |-> "rows", v |-> v]
StoreError(name, status, details) == [name |-> name, status |-> status, details |-> details]
NoStoreError == StoreError("none", "", "")
Pending == [kind |-> "pending", value |-> Undefined, err |-> NoStoreError]
Returned(value) == [kind |-> "value", value |-> value, err |-> NoStoreError]
Thrown(err) == [kind |-> "throw", value |-> Undefined, err |-> err]

NoResponse == [ok |-> FALSE, status |-> "", statusText |-> "", text |-> ""]

\* The responses fetch() resolves to: a 2xx response (a read answers with a
\* JSON array, a write with the written rows or with an empty body), or a
\* non-2xx response with or without a body.
StoreResponses(method) ==
  {[ok |-> TRUE, status |-> "200", statusText |-> "OK", text |-> tx] :
      tx \in (IF method = "GET" THEN {"json"} ELSE {"", "json"})}
  \cup {[ok |-> FALSE, status |-> "500",
         statusText |-> "Internal Server Error", text |-> tx] : tx \in {"", "boom"}}

handleResponseStrict(response, parsed) ==
  IF ~response.ok \/ response.text = ""
  THEN Thrown(StoreError("Error", response.status, response.statusText))
  ELSE Returned(parsed)

\* handleResponse(response); parsed is what JSON.parse(text) yields for a JSON body.
handleResponse(response, parsed) ==
  IF ~response.ok
  THEN Thrown(StoreError("Error", response.status,
                         IF response.text # "" THEN response.text ELSE response.statusText))
  ELSE IF response.text = "" THEN Returned(Undefined)
  ELSE Returned(parsed)

\* supabaseRequest without configuration: the version with the auth client
\* throws, the later version warns and returns undefined.
Unconfigured(build) ==
  IF build = "throws" THEN Thrown(StoreError("Error", "", "Supabase is not configured."))
  ELSE Returned(Undefined)

Terminal == {"resolved", "rejected"}

Method(pc) ==
  IF pc \in {"select", "popular", "read"} THEN "GET"
  ELSE IF pc = "delete" THEN "DELETE" ELSE "POST"

\* The first supabaseRequest of each function.
FirstRequest(op) ==
  CASE op = "saveUserProfile" -> "upsert"
    [] op = "getUserIngredients" -> "select"
    [] op = "replaceUserIngredients" -> "delete"
    [] op = "appendUserIngredient" -> "append"
    [] op = "getPopularRecipes" -> "popular"
    [] op = "recordRecipeSearch" -> "event"

\* const [row] = await supabaseRequest(...); return row
Destructured(res) ==
  IF res.value.t = "undefined"
  THEN Thrown(StoreError("TypeError", "", "undefined is not iterable"))
  ELSE Returned(IF res.value.v = <<>> THEN Undefined ELSE Rows(<<res.value.v[1]>>))

\* return data ?? []
OrEmpty(res) == Returned(IF res.value.t = "undefined" THEN Rows(<<>>) ELSE res.value)

NextCountFromZero(res) == 0 + 1

NextCountTwice(res) == (IF res.value.v = <<>> THEN 0 ELSE res.value.v[1].search_count) + 2

\* (existing?.[0]?.search_count ?? 0) + 1
NextCount(res) == (IF res.value.v = <<>> THEN 0 ELSE res.value.v[1].search_count) + 1

Complete(c, outcome) ==
  [c EXCEPT !.pc = IF outcome.kind = "throw" THEN "rejected" ELSE "resolved",
            !.outcome = outcome, !.id = 0, !.nextCount = 0]

\* The function's code from the settling of the supabaseRequest awaited at
\* c.pc, with result res, up to its next supabaseRequest or its completion.
AfterRequest(c, res) ==
  IF res.kind = "throw" THEN Complete(c, res)
  ELSE CASE c.pc \in {"upsert", "append", "write"} -> Complete(c, Destructured(res))
         [] c.pc \in {"select", "popular"} -> Complete(c, OrEmpty(res))
         [] c.pc = "delete" ->
              IF c.items = <<>> THEN Complete(c, Returned(Rows(<<>>)))
              ELSE [c EXCEPT !.pc = "insert"]
         [] c.pc = "insert" -> Complete(c, OrEmpty(res))
         [] c.pc = "event" -> [c EXCEPT !.pc = "read"]
         [] c.pc = "read" -> [c EXCEPT !.pc = "write", !.nextCount = NextCount(res)]

\* Without configuration no request suspends: the function runs to its end.
RECURSIVE RunUnconfigured(_, _)
RunUnconfigured(c, res) ==
  LET c1 == [AfterRequest(c, res) EXCEPT !.result = res]
  IN  IF c1.pc \in Terminal THEN c1 ELSE RunUnconfigured(c1, res)

CountRowsMissed(label) == <<>>

\* /recipe_search_counts?recipe_name=eq.<label>&select=recipe_name,search_count
CountRows(label) ==
  IF searchCounts[label] = <<>> THEN <<>>
  ELSE <<[recipe_name |-> label, search_count |-> searchCounts[label][1]]>>

\* The body of a 2xx response that carries JSON, by request.
ParsedBody(c) ==
  CASE c.pc = "select" -> Rows(PantryOf(userIngredients, StoreUser))
    [] c.pc = "delete" -> Rows(PantryOf(userIngredients, StoreUser))
    [] c.pc \in {"insert", "append"} -> Rows(IngredientRecords(StoreUser, c.items))
    [] c.pc = "popular" -> Rows(CountRows(c.label))
    [] c.pc = "read" -> Rows(CountRows(c.label))
    [] c.pc = "write" -> Rows(<<[recipe_name |-> c.label, search_count |-> c.nextCount]>>)
    [] c.pc = "event" -> Rows(<<[recipe_name |-> c.label, search_term |-> c.label]>>)
    [] c.pc = "upsert" -> Rows(<<[id |-> StoreUser]>>)

\* What the store does with a request it answers with 2xx.
StoreApplies(c) ==
  /\ userIngredients' =
       CASE c.pc = "delete" -> PantryAfterDelete(userIngredients, StoreUser)
         [] c.pc \in {"insert", "append"} ->
              userIngredients \o IngredientRecords(StoreUser, c.items)
         [] OTHER -> userIngredients
  /\ searchEvents' =
       IF c.pc = "event"
       THEN Append(searchEvents, [recipe_name |-> c.label, search_term |-> c.label])
       ELSE searchEvents
  /\ searchCounts' =
       IF c.pc = "write" THEN [searchCounts EXCEPT ![c.label] = <<c.nextCount>>]
       ELSE searchCounts

\* The versions of supabaseRequest differ only in what they do without
\* configuration, so the configured client is explored in one of them.
ClientBuilds ==
  { [config |-> "configured", build |-> "skips"],
    [config |-> "missing", build |-> "throws"],
    [config |-> "missing", build |-> "skips"] }

\* Evaluation of supabaseClient.ts (isSupabaseConfigured), against a store
\* that holds some rows already.
StoreBoot(config, build, stored) ==
  /\ storeBoot.config = "unset"
  /\ storeBoot' = [config |-> config, build |-> build, count |-> stored.count]
  /\ userIngredients' = stored.rows
  /\ searchCounts' = [l \in RecipeLabels |-> stored.count]
  /\ UNCHANGED <<searchEvents, storeCalls, lastSettled, nStoreCalls>>
  /\ UNCHANGED <<syncVars, apiVars, uiVars>>

\* The record of one invocation of a supabaseService function: its arguments,
\* the request it awaits, the response and result of its last request, and
\* what the tables it writes held when it was called. id tells apart the
\* invocations in flight.
NewCall(op, items, name) ==
  [id |-> CHOOSE k \in 1..(MaxStoreCalls + 1) :
             /\ \A c \in storeCalls : c.id # k
             /\ \A j \in 1..(k - 1) : \E c \in storeCalls : c.id = j,
   op |-> op, items |-> items, label |-> trim(name),
   pc |-> FirstRequest(op), nreq |-> 0, resp |-> NoResponse, result |-> Pending,
   nextCount |-> 0, outcome |-> Pending, alone |-> (storeCalls = {}),
   before |-> IF op \in {"replaceUserIngredients", "appendUserIngredient"}
              THEN [rows |-> PantryOf(userIngredients, StoreUser), count |-> <<>>, events |-> 0]
              ELSE IF op = "recordRecipeSearch"
              THEN [rows |-> <<>>, count |-> searchCounts[trim(name)],
                    events |-> Len(searchEvents)]
              ELSE [rows |-> <<>>, count |-> <<>>, events |-> 0]]

NoCall ==
  [id |-> 0, op |-> "none", items |-> <<>>, label |-> <<>>,
   pc |-> "none", nreq |-> 0, resp |-> NoResponse, result |-> Pending,
   nextCount |-> 0, outcome |-> Pending, alone |-> TRUE,
   before |-> [rows |-> <<>>, count |-> <<>>, events |-> 0]]

\* A supabaseService function is called: it runs up to its first fetch, or to
\* its end when supabaseRequest issues none.
StoreCall(op, items, name) ==
  /\ storeBoot.config # "unset"
  /\ nStoreCalls < MaxStoreCalls
  /\ nStoreCalls' = nStoreCalls + 1
  /\ IF storeBoot.config = "missing"
     THEN /\ lastSettled' = RunUnconfigured(NewCall(op, items, name),
                                            Unconfigured(storeBoot.build))
          /\ UNCHANGED storeCalls
     ELSE /\ storeCalls' = {[c EXCEPT !.alone = FALSE] : c \in storeCalls}
                              \cup {[NewCall(op, items, name) EXCEPT !.nreq = 1]}
          /\ UNCHANGED lastSettled
  /\ UNCHANGED <<storeBoot, userIngredients, searchCounts, searchEvents>>
  /\ UNCHANGED <<syncVars, apiVars, uiVars>>

NoName == <<"Kimchi Stew">>

saveUserProfile == StoreCall("saveUserProfile", <<>>, NoName)
getUserIngredients == StoreCall("getUserIngredients", <<>>, NoName)
replaceUserIngredients(items) == StoreCall("replaceUserIngredients", items, NoName)
appendUserIngredient(item) == StoreCall("appendUserIngredient", <<item>>, NoName)
getPopularRecipes == StoreCall("getPopularRecipes", <<>>, NoName)
recordRecipeSearch(name) == StoreCall("recordRecipeSearch", <<>>, name)

\* The fetch of the request awaited by call c settles with response r.
StoreRequestSettles(c, r) ==
  /\ c \in storeCalls
  /\ r \in StoreResponses(Method(c.pc))
  /\ IF r.ok THEN StoreApplies(c)
     ELSE UNCHANGED <<userIngredients, searchEvents, searchCounts>>
  /\ LET res == handleResponse(r, ParsedBody(c))
         c1 == AfterRequest(c, res)
     IN  IF c1.pc \in Terminal
         THEN /\ lastSettled' = [c1 EXCEPT !.resp = r, !.result = res]
              /\ storeCalls' = storeCalls \ {c}
         ELSE /\ storeCalls' = (storeCalls \ {c}) \cup {[c1 EXCEPT !.nreq = @ + 1]}
              /\ UNCHANGED lastSettled
  /\ UNCHANGED <<storeBoot, nStoreCalls>>
  /\ UNCHANGED <<syncVars, apiVars, uiVars>>

InitStore ==
  /\ storeBoot = [config |-> "unset", build |-> "unset", count |-> <<>>]
  /\ userIngredients = <<>>
  /\ searchCounts = [l \in RecipeLabels |-> <<>>]
  /\ searchEvents = <<>>
  /\ storeCalls = {}
  /\ lastSettled = NoCall
  /\ nStoreCalls = 0

NextStore ==
  \/ \E boot \in ClientBuilds, stored \in StoredTables :
        StoreBoot(boot.config, boot.build, stored)
  \/ saveUserProfile
  \/ getUserIngredients
  \/ \E items \in ItemLists : replaceUserIngredients(items)
  \/ appendUserIngredient(Milk)
  \/ getPopularRecipes
  \/ \E name \in RecipeNameInputs : recordRecipeSearch(name)
  \/ \E c \in storeCalls : \E r \in StoreResponses(Method(c.pc)) : StoreRequestSettles(c, r)

Init == InitSync /\ InitApi /\ InitUi /\ InitStore

Spec == Init /\ [][NextSync]_vars

SpecApi == Init /\ [][NextApi]_vars

SpecUi == Init /\ [][NextUi]_vars

SpecStore == Init /\ [][NextStore]_vars

\* Every remote request of syncUserData eventually settles.
SyncSettles ==
  \E t \in syncTasks :
     \/ SyncProfileSaved(t)
     \/ SyncProfileFailed(t)
     \/ \E ok \in BOOLEAN : SyncFetchedIngredients(t, ok)
     \/ \E ok \in BOOLEAN : SyncFetchedSavedRecipes(t, ok)

\* The steps of NextSync, user-driven events up to MaxLiveEvents.
NextLive ==
  \/ \E u \in Users : handleLogin(u) /\ nEvents' <= MaxLiveEvents
  \/ \E u \in Users : handleSignup(u) /\ nEvents' <= MaxLiveEvents
  \/ handleLogout
  \/ RestoreSession /\ nEvents' <= MaxLiveEvents
  \/ \E i \in AllItems : setIngredients(i) /\ nEvents' <= MaxLiveEvents
  \/ \E i \in AllItems : handleToggleSaveRecipe(i) /\ nEvents' <= MaxLiveEvents
  \/ \E i \in AllItems : handleToggleShoppingListItem(i) /\ nEvents' <= MaxLiveEvents
  \/ \E s \in {CustomSettings(currentUser)}, init \in SUBSET OwnItems(currentUser) :
        handleSaveSettings(s, init) /\ nEvents' <= MaxLiveEvents
  \/ SyncSettles
  \/ \E t \in pushTasks : replaceUserIngredientsDelete(t)
  \/ \E t \in pushTasks : replaceUserIngredientsInsert(t)
  \/ \E t \in pushTasks : replaceUserSavedRecipesDelete(t)
  \/ \E t \in pushTasks : replaceUserSavedRecipesInsert(t)
  \/ \E t \in pushTasks : PushFailed(t)

SpecLive == Init /\ [][NextLive]_vars /\ WF_vars(SyncSettles)

\* ================================================================== claims
OverloadedBody == <<"model", "overloaded", "(", "503", ")">>
WaitMs == [k \in 1..Len(waits) |-> waits[k].ms]

\* C1: every replaceUserIngredients / replaceUserSavedRecipes request in flight
\* was issued from a commit whose gate flag (ingredientsLoaded /
\* savedRecipesLoaded) was true; none is issued while the gate is false.
C1_NoPushWhileGateFalse == \A t \in pushTasks : t.gate

\* A local pantry mutation made after reconciliation is being pushed.
C1_Witness ==
  \E t \in pushTasks : t.coll = "ingredients" /\ t.gate /\ t.data # {}
                       /\ t.user = currentUser /\ ingredients = t.data

\* C2: data created by one user never reaches another user's in-memory pantry
\* or saved recipes, another user's cache keys, or a push to another user's rows.
C2_NoCrossUserData ==
  /\ currentUser # NoUser => (ingredients \cup savedRecipes) \subseteq OwnItems(currentUser)
  /\ \A u \in Users : \A kind \in {"ingredients", "savedrecipes", "shoppinglist"} :
        loadCachedState(cache, getUserScopedKey(kind, u), {}) \subseteq OwnItems(u)
  /\ \A t \in pushTasks : t.data \subseteq OwnItems(t.user)

\* C3: a login (after logout) loads into memory exactly what was stored under
\* the user's cache keys before the login, defaults where no entry exists.
C3_LoginRestoresCache ==
  [][(currentUser = NoUser /\ currentUser' # NoUser) =>
       /\ settings' = loadCachedState(cache, getUserScopedKey("settings", currentUser'),
                                      defaultSettings)
       /\ ingredients' = loadCachedState(cache, getUserScopedKey("ingredients", currentUser'), {})
       /\ savedRecipes' = loadCachedState(cache, getUserScopedKey("savedrecipes", currentUser'), {})
       /\ shoppingList' = loadCachedState(cache, getUserScopedKey("shoppinglist", currentUser'), {})
    ]_vars

\* C4: one invocation of callGeminiApi issues at most 3 requests.
C4_AtMostThreeRequests == requests <= 3 /\ Len(responses) <= 3

\* Three requests were issued, the attempts ending in different branches.
C4_Witness ==
  /\ requests = 3 /\ Len(responses) = 3 /\ apiPc = "failed"
  /\ responses[1].kind = "reject" /\ responses[2].kind = "http" /\ ~responses[2].parses
  /\ responses[3].kind = "http" /\ responses[3].parses

\* C5: a non-2xx response with a non-JSON body ends the invocation at once:
\* no wait, no further request, failure carrying the raw text or the status.
C5_NonJsonNeverRetried ==
  \A k \in 1..Len(responses) :
    (responses[k].kind = "http" /\ ~responses[k].parses) =>
       /\ k = Len(responses)
       /\ apiPc = "failed"
       /\ requests = k
       /\ Len(waits) = k - 1
       /\ apiOutcome = <<JsError(OrStatus(responses[k].text, responses[k].status), k)>>

\* C6: a non-2xx response with a JSON body is retried iff its message contains
\* "overloaded" or "503" and attempts remain; otherwise the invocation fails
\* with the message (or the status) without a further attempt.
C6_JsonErrorRetriedIffRetryable ==
  \A k \in 1..Len(responses) :
    (responses[k].kind = "http" /\ responses[k].parses) =>
       IF isRetryable(responses[k].error) /\ k < 3
       THEN Len(waits) >= k
       ELSE /\ k = Len(responses)
            /\ apiPc = "failed"
            /\ requests = k
            /\ Len(waits) = k - 1
            /\ apiOutcome = <<JsError(OrStatus(responses[k].error, responses[k].status), k)>>

\* C7: the wait before the 2nd attempt is 1000 ms and before the 3rd 2000 ms in
\* every branch, no wait follows the final attempt, and three consecutive
\* "model overloaded (503)" responses fail after exactly the waits 1000, 2000.
C7_BackoffDoubles ==
  /\ Len(waits) <= 2
  /\ \A k \in 1..Len(waits) : waits[k].ms = (IF k = 1 THEN 1000 ELSE 2000)
  /\ apiPc = "fetching" => Len(waits) = attempt - 1
  /\ apiPc \in {"returned", "failed"} => Len(waits) = Len(responses) - 1
  /\ (Len(responses) = 3 /\ \A k \in 1..3 : responses[k].error = OverloadedBody)
        => (apiPc = "failed" /\ WaitMs = <<1000, 2000>>)

\* Three consecutive overloaded responses, both kinds of branch having slept.
C7_Witness ==
  /\ Len(responses) = 3 /\ \A k \in 1..3 : responses[k].error = OverloadedBody
  /\ apiPc = "failed" /\ WaitMs = <<1000, 2000>>

\* C8: a rejected fetch is retried with the same backoff while attempts remain;
\* on the final attempt the caller receives the very error that was caught
\* when it is an Error, and a generic Error otherwise.
C8_RejectionRetriedThenRethrown ==
  \A k \in 1..Len(responses) :
    responses[k].kind = "reject" =>
       IF k < 3
       THEN /\ Len(waits) >= k
            /\ waits[k] = [ms |-> (IF k = 1 THEN 1000 ELSE 2000), branch |-> "catch"]
            /\ requests > k \/ apiPc = "waiting"
       ELSE /\ apiPc = "failed"
            /\ caught[k] # <<>> /\ caught[k][1].born = k
            /\ apiOutcome = <<IF responses[k].isError THEN caught[k][1] ELSE GenericError>>

\* Rejections on every attempt, the last one an Error object.
C8_Witness ==
  /\ Len(responses) = 3 /\ apiPc = "failed"
  /\ \A k \in 1..3 : responses[k].kind = "reject"
  /\ responses[3].isError /\ apiOutcome = <<JsError(<<"Failed to fetch">>, 3)>>

C10_AtMostOneDetailCall == \A n \in RecipeNames : detailCalls[n] <= 1

\* C10 amended: a getRecipeDetails call is issued for a recipeName only when the
\* list holds an entry of that name whose isDetailsLoaded is false; once the
\* entries of that name are loaded, selecting them issues no call.
C10_CallOnlyWhileNotLoaded ==
  [][\A n \in RecipeNames :
       detailCalls'[n] > detailCalls[n] =>
          \E k \in 1..Len(recipes) :
             recipes[k].recipeName = n /\ ~recipes[k].isDetailsLoaded]_vars

\* A recipe whose details are loaded was selected again: still one call.
C10_Witness ==
  \E n \in RecipeNames :
    /\ selectCount[n] >= 2 /\ detailCalls[n] = 1
    /\ \E k \in 1..Len(recipes) : recipes[k].recipeName = n /\ recipes[k].isDetailsLoaded
    /\ selectedRecipe # NoRecipe /\ selectedRecipe[1].isDetailsLoaded
    /\ stageB = {}

\* C11: every recipe that Stage A puts into the list has isDetailsLoaded=false
\* and empty instructions and substitutions, and a list entry becomes
\* isDetailsLoaded=true only in the step in which a getRecipeDetails call for
\* that exact recipeName resolves.
C11_DetailsLoadedOnlyAfterSuccess ==
  [][/\ (stageA \ stageA' # {} /\ lastOutcome' = "resolved") =>
          \A k \in 1..Len(recipes') :
             /\ ~recipes'[k].isDetailsLoaded
             /\ recipes'[k].instructions = <<>>
             /\ recipes'[k].substitutions = <<>>
     /\ \A k \in 1..Len(recipes') :
          recipes'[k].isDetailsLoaded =>
             \/ k <= Len(recipes) /\ recipes[k] = recipes'[k]
             \/ \E t \in stageB \ stageB' :
                   /\ lastOutcome' = "resolved"
                   /\ t.recipe.recipeName = recipes'[k].recipeName
    ]_vars

\* One entry of a two-recipe result has its details, the other is still an overview.
C11_Witness ==
  /\ Len(recipes) = 2 /\ lastOutcome = "resolved"
  /\ recipes[1].isDetailsLoaded /\ recipes[1].instructions # <<>>
  /\ detailCalls[recipes[1].recipeName] >= 1
  /\ ~recipes[2].isDetailsLoaded /\ recipes[2].instructions = <<>>

\* C12: when a getRecipeDetails call rejects, the recipe list is exactly what
\* it was: no card is removed, the inspected recipe keeps its overview fields
\* and its isDetailsLoaded flag.
C12_DetailsFailureLeavesList ==
  [][\A t \in stageB \ stageB' :
       lastOutcome' = "rejected" => (recipes' = recipes /\ selectedRecipe' = selectedRecipe)
    ]_vars

\* The only getRecipeDetails call of a two-recipe result failed; both cards remain.
C12_Witness ==
  /\ lastOutcome = "rejected" /\ stageB = {} /\ Len(recipes) = 2
  /\ \A k \in 1..2 : ~recipes[k].isDetailsLoaded
  /\ selectedRecipe # NoRecipe /\ ~selectedRecipe[1].isDetailsLoaded
  /\ detailCalls[selectedRecipe[1].recipeName] = 1

\* C13: when a getRecipeDetails call rejects, the component's error state is
\* set (the failure is shown, not only logged).
C13_DetailsFailureShown ==
  [][\A t \in stageB \ stageB' : lastOutcome' = "rejected" => error' # NoError]_vars

\* C14: when getRecipeRecommendations rejects, the error state holds the
\* error's message, the recipe list is empty and isLoading is false again.
C14_StageAFailureSurfaced ==
  [][\A id \in stageA \ stageA' :
       lastOutcome' = "rejected" =>
          /\ error' \in {e.message : e \in StageAErrors}
          /\ recipes' = <<>>
          /\ ~isLoading'
    ]_vars

\* A second search failed after a recipe of the first search had been opened:
\* nothing of the first result is left in the list.
C14_Witness ==
  /\ nSearches = 2 /\ stageA = {} /\ ~isLoading
  /\ error = "quota exceeded" /\ recipes = <<>>
  /\ selectedRecipe # NoRecipe /\ selectedRecipe[1].overview[1] = 1

\* C15: when getRecipeRecommendations resolves with an empty list, the list is
\* empty, the message shown is "no recipes found" and not what the catch block
\* would have set, and isLoading is false again.
C15_EmptyResultIsNotFailure ==
  [][\A id \in stageA \ stageA' :
       (lastOutcome' = "resolved" /\ Len(recipes') = 0) =>
          /\ error' = "noRecipesFound"
          /\ error' \notin {CaughtMessage(e) : e \in StageAErrors}
          /\ ~isLoading'
    ]_vars

\* A search came back empty.
C15_Witness ==
  /\ nSearches >= 1 /\ stageA = {} /\ lastOutcome = "resolved"
  /\ recipes = <<>> /\ error = "noRecipesFound" /\ ~isLoading

\* C16: a getRecipeDetails call is issued only while no getRecipeRecommendations
\* call is in flight, and only for a recipe of the list that a completed
\* search produced.
C16_StageAFirst ==
  [][\A t \in stageB' \ stageB :
       /\ stageA = {} /\ stageA' = {}
       /\ t.recipe.overview[1] \in 1..nSearches
       /\ \E k \in 1..Len(recipes) : recipes[k] = t.recipe
    ]_vars

\* A recipe of the second search is being fetched after that search completed.
C16_Witness ==
  /\ nSearches = 2 /\ stageA = {}
  /\ \E t \in stageB : t.recipe.overview[1] = 2

\* C17: the two fetches of a syncUserData invocation are issued whatever
\* saveUserProfile does: every invocation that ends (other than by a page
\* reload) has issued its fetches and merged their results.
C17_FetchesIndependentOfProfile ==
  [][\A t \in syncTasks \ syncTasks' :
       (nEvents' = nEvents /\ ~\E s \in syncTasks' : s.id = t.id) => t.stage = "fetch"
    ]_vars

\* C18: when the second of the two fetches of a syncUserData invocation
\* settles, the in-memory pantry and saved recipes are the fetched rows (empty
\* for a failed fetch), whatever memory held before, and both gates are true.
C18_RemoteWinsOnCompletion ==
  [][\A t \in syncTasks \ syncTasks' :
       (nEvents' = nEvents /\ t.stage = "fetch" /\ ~\E s \in syncTasks' : s.id = t.id) =>
          /\ ingredients' \in (IF t.ing # <<>> THEN {t.ing[1]}
                               ELSE {remoteIngredients[t.user], {}})
          /\ savedRecipes' \in (IF t.saved # <<>> THEN {t.saved[1]}
                                ELSE {remoteSavedRecipes[t.user], {}})
          /\ ingredientsLoaded' /\ savedRecipesLoaded'
          /\ currentUser' = currentUser
    ]_vars

\* The pantry chosen at onboarding and loaded from the cache was replaced by
\* the empty result of the reconciliation although rows have reached the
\* remote store since.
C18_Witness ==
  /\ currentUser \in onboarded /\ nEvents = 2 /\ syncTasks = {}
  /\ ingredientsLoaded /\ savedRecipesLoaded
  /\ ingredients = {} /\ cache[getUserScopedKey("ingredients", currentUser)] = <<{}>>
  /\ remoteIngredients[currentUser] # {}

\* C19: while a user is logged in, both gate flags eventually become true (or
\* the user logs out), provided the requests of syncUserData settle.
C19_GatesEventuallyTrue ==
  (currentUser # NoUser) ~> ((ingredientsLoaded /\ savedRecipesLoaded) \/ currentUser = NoUser)

\* Both gates are true although saveUserProfile failed: the onboarding pantry
\* is still the cached one and is about to replace the empty remote pantry.
C19_Witness ==
  /\ currentUser \in onboarded /\ nEvents = 2 /\ syncTasks = {}
  /\ ingredientsLoaded /\ savedRecipesLoaded
  /\ ingredients # {} /\ remoteIngredients[currentUser] = {}
  /\ \E t \in pushTasks : t.coll = "ingredients" /\ t.stage = "delete"
                           /\ t.user = currentUser /\ t.data = ingredients

\* C20: while a user is logged in, the user's four cache entries equal the
\* in-memory settings, pantry, saved recipes and shopping list after every
\* commit, whether the gates are true or false.
C20_CacheEqualsMemory ==
  currentUser # NoUser =>
     /\ cache[getUserScopedKey("settings", currentUser)] = <<settings>>
     /\ cache[getUserScopedKey("ingredients", currentUser)] = <<ingredients>>
     /\ cache[getUserScopedKey("savedrecipes", currentUser)] = <<savedRecipes>>
     /\ cache[getUserScopedKey("shoppinglist", currentUser)] = <<shoppingList>>

\* A pantry entry and a shopping-list entry added while the gates were still
\* false are in the cache.
C20_Witness ==
  /\ currentUser # NoUser /\ ~ingredientsLoaded /\ ~savedRecipesLoaded
  /\ currentUser \notin onboarded
  /\ ingredients # {} /\ shoppingList # {}
  /\ cache[getUserScopedKey("ingredients", currentUser)] = <<ingredients>>
  /\ cache[getUserScopedKey("shoppinglist", currentUser)] = <<shoppingList>>
  /\ pushTasks = {}

\* C21: while no user is logged in, the in-memory settings, pantry, saved
\* recipes and shopping list are the defaults and both gate flags are false.
C21_LoggedOutStateIsDefault ==
  currentUser = NoUser =>
     /\ settings = defaultSettings
     /\ ingredients = {} /\ savedRecipes = {} /\ shoppingList = {}
     /\ ~ingredientsLoaded /\ ~savedRecipesLoaded

\* C28: a gate flag of a logged-in user opens only in the step in which a
\* syncUserData invocation started for that user completes its two fetches
\* and merges their results into memory.
C28_GateOpensOnlyAfterMerge ==
  [][\A flag \in {"ingredients", "savedrecipes"} :
       LET before == IF flag = "ingredients" THEN ingredientsLoaded ELSE savedRecipesLoaded
           after == IF flag = "ingredients" THEN ingredientsLoaded' ELSE savedRecipesLoaded'
       IN  (~before /\ after /\ currentUser' # NoUser) =>
              \E t \in syncTasks \ syncTasks' :
                 t.stage = "fetch" /\ t.user = currentUser'
    ]_vars

\* C29: when the syncUserData of a session started by a login, signup or
\* reload completes with no user event since the session started and no other
\* request in flight, every replace request that its commit issues carries
\* exactly the rows the remote store holds, so that the session leaves the
\* user's remote pantry and saved recipes as they were.
C29_IdleSessionLeavesRemote ==
  [][\A t \in syncTasks \ syncTasks' :
       ( /\ nEvents' = nEvents /\ t.id = nEvents /\ t.user = currentUser
         /\ t.user \notin onboarded
         /\ syncTasks = {t} /\ syncTasks' = {} /\ pushTasks = {} ) =>
          \A p \in pushTasks' :
             p.data = (IF p.coll = "ingredients" THEN remoteIngredients[p.user]
                       ELSE remoteSavedRecipes[p.user])
    ]_vars

\* C22: when a replaceUserIngredients call that overlapped no other call
\* fails, the user's rows in user_ingredients are the rows held when it was
\* called.
C22_FailedReplaceLeavesPantry ==
  [][\A c \in storeCalls :
       ( /\ c.op = "replaceUserIngredients" /\ c.alone
         /\ storeCalls' = {} /\ lastSettled'.pc = "rejected" ) =>
          PantryOf(userIngredients', StoreUser) = c.before.rows
    ]_vars

\* C23: when a replaceUserIngredients(u, items) call that overlapped no other
\* call succeeds, the user's rows are exactly the records of items; and a
\* getUserIngredients(u) that follows it, with no other call in between,
\* returns exactly those records.
C23_ReplaceIsFullReplace ==
  [][\A c \in storeCalls :
       /\ ( /\ c.op = "replaceUserIngredients" /\ c.alone
            /\ storeCalls' = {} /\ lastSettled'.pc = "resolved" ) =>
             PantryOf(userIngredients', StoreUser) = IngredientRecords(StoreUser, c.items)
       /\ ( /\ c.op = "getUserIngredients" /\ c.alone
            /\ lastSettled.op = "replaceUserIngredients" /\ lastSettled.alone
            /\ lastSettled.pc = "resolved"
            /\ storeCalls' = {} /\ lastSettled'.pc = "resolved" ) =>
             lastSettled'.outcome.value = Rows(IngredientRecords(StoreUser, lastSettled.items))
    ]_vars

\* replaceUserIngredients(u, []) has succeeded on a pantry of one Egg row, the
\* rows are gone, and a getUserIngredients(u) is awaiting its response.
C23_Witness ==
  /\ lastSettled.op = "replaceUserIngredients" /\ lastSettled.alone
  /\ lastSettled.pc = "resolved" /\ lastSettled.items = <<>>
  /\ lastSettled.before.rows = IngredientRecords(StoreUser, <<Egg>>)
  /\ PantryOf(userIngredients, StoreUser) = <<>>
  /\ \E g \in storeCalls : g.op = "getUserIngredients" /\ g.alone

\* C24 (as stated): search_count of a recipe never decreases in any step.
C24_CounterNeverDecreases ==
  [][\A l \in RecipeLabels :
       searchCounts[l] # <<>> =>
          /\ searchCounts'[l] # <<>>
          /\ searchCounts'[l][1] >= searchCounts[l][1]
    ]_vars

\* C24 (amended): search_count of a recipe decreases only in the write of a
\* recordRecipeSearch call that overlapped another call; the write of a call
\* that overlapped none never lowers it, and no step removes the row.
C24_CounterDecreasesOnlyByOverlap ==
  [][\A l \in RecipeLabels :
       searchCounts[l] # <<>> =>
          /\ searchCounts'[l] # <<>>
          /\ searchCounts'[l][1] < searchCounts[l][1] =>
                \E c \in storeCalls \ storeCalls' :
                   /\ c.op = "recordRecipeSearch" /\ c.pc = "write"
                   /\ c.label = l /\ ~c.alone
    ]_vars

\* A recordRecipeSearch call that overlapped another is about to write a
\* count that is not above the stored one.
C24_Witness ==
  \E c \in storeCalls :
     /\ c.op = "recordRecipeSearch" /\ c.pc = "write" /\ ~c.alone
     /\ searchCounts[c.label] # <<>>
     /\ c.nextCount <= searchCounts[c.label][1]

\* C25: when the count write of a recordRecipeSearch call that overlapped no
\* other call is stored, search_count of the trimmed name is one more than
\* when the call began (1 when there was no row), and search_events has
\* exactly one more row.
C25_SequentialSearchCounts ==
  [][\A c \in storeCalls :
       ( /\ c.op = "recordRecipeSearch" /\ c.alone /\ c.pc = "write"
         /\ storeCalls' = {} /\ lastSettled'.resp.ok ) =>
          /\ searchCounts'[c.label] =
                <<(IF c.before.count = <<>> THEN 0 ELSE c.before.count[1]) + 1>>
          /\ Len(searchEvents') = c.before.events + 1
    ]_vars

\* Two recordRecipeSearch calls, one after the other, have taken a count of 5
\* to 7 and appended two search events.
C25_Witness ==
  /\ nStoreCalls = 2 /\ storeCalls = {}
  /\ lastSettled.op = "recordRecipeSearch" /\ lastSettled.alone
  /\ lastSettled.before.count = <<6>>
  /\ searchCounts[lastSettled.label] = <<7>>
  /\ Len(searchEvents) = 2

\* C26: without configuration every supabaseService function completes
\* without failure and without having issued a request.
C26_UnconfiguredIsNoOp ==
  (storeBoot.config = "missing" /\ lastSettled # NoCall) =>
     /\ lastSettled.pc = "resolved"
     /\ lastSettled.nreq = 0

\* C27: the request that completed a call failed with the HTTP status and
\* the body text (the status text when the body is empty) if its response
\* was not 2xx, and resolved to undefined if the response was 2xx with an
\* empty body.
C27_ResponseHandling ==
  lastSettled.resp # NoResponse =>
     /\ ~lastSettled.resp.ok =>
          /\ lastSettled.result.kind = "throw"
          /\ lastSettled.result.err.status = lastSettled.resp.status
          /\ lastSettled.result.err.details =
                IF lastSettled.resp.text # "" THEN lastSettled.resp.text
                ELSE lastSettled.resp.statusText
     /\ (lastSettled.resp.ok /\ lastSettled.resp.text = "") =>
          lastSettled.result = Returned(Undefined)

\* A 500 response without a body has failed a request with the status text.
C27_Witness ==
  /\ lastSettled.resp.status = "500" /\ lastSettled.resp.text = ""
  /\ lastSettled.result.err.details = "Internal Server Error"
  /\ lastSettled.pc = "rejected"

\* C30: an ingredient name that only replaceUserIngredients stores is never
\* held twice in the user's rows of user_ingredients.
C30_NoNameStoredTwice ==
  \A list \in ItemLists : \A k \in DOMAIN list :
     Cardinality({n \in DOMAIN userIngredients :
                    /\ userIngredients[n].user_id = StoreUser
                    /\ userIngredients[n].ingredient_name = list[k].name}) <= 1

\* C36: a saveUserProfile, recordRecipeSearch or appendUserIngredient call
\* whose requests were all answered 2xx completes without error.
C36_WritesSucceedOn2xx ==
  ( /\ lastSettled.op \in {"saveUserProfile", "recordRecipeSearch", "appendUserIngredient"}
    /\ lastSettled.resp.ok ) =>
     lastSettled.pc = "resolved"

\* search_count as a number: 0 when there is no row.
CountValue(row) == IF row = <<>> THEN 0 ELSE row[1]

\* C37: with c the count held at the start, the count of a recipe name is
\* never below c and never above c plus the search events appended, which
\* are at most the calls made; once the count write of a call has been
\* stored it is at least c + 1.
C37_CounterBounds ==
  \A l \in RecipeLabels :
     LET c == CountValue(storeBoot.count)
         cur == CountValue(searchCounts[l])
     IN  /\ cur >= c
         /\ cur <= c + Len(searchEvents)
         /\ Len(searchEvents) <= nStoreCalls
         /\ (lastSettled.op = "recordRecipeSearch" /\ lastSettled.resp.ok) => cur >= c + 1

\* Two overlapping recordRecipeSearch calls have both completed from a count
\* of 5: two events were appended and the count is 6.
C37_Witness ==
  /\ storeBoot.count = <<5>> /\ nStoreCalls = 2 /\ storeCalls = {}
  /\ lastSettled.op = "recordRecipeSearch" /\ lastSettled.resp.ok /\ ~lastSettled.alone
  /\ Len(searchEvents) = 2
  /\ \A l \in RecipeLabels : searchCounts[l] = <<6>>

\* C38: the user's rows of user_ingredients never hold twice the name that
\* appendUserIngredient stores.
C38_AppendKeepsNameUnique ==
  Cardinality({n \in DOMAIN userIngredients :
                 /\ userIngredients[n].user_id = StoreUser
                 /\ userIngredients[n].ingredient_name = Milk.name}) <= 1

\* C31: when a signup has been followed by the handleSaveSettings that
\* completes onboarding with initial ingredients and by no other user event,
\* and every request has completed, the added ingredients are in the
\* in-memory pantry and in the user's remote pantry.
C31_OnboardingIngredientsKept ==
  \A u \in Users :
     ( /\ currentUser = u /\ u \in onboarded /\ registered = {u} /\ nEvents = 2
       /\ syncTasks = {} /\ pushTasks = {} ) =>
        /\ OwnItems(u) \subseteq ingredients
        /\ OwnItems(u) \subseteq remoteIngredients[u]

\* C32: when a getRecipeDetails call settles after the detail view was
\* closed or another recipe was selected, the selection stays as it is; when
\* it settles after a newer search was started, the recipe list stays as it is.
C32_StaleDetailsDiscarded ==
  [][\A t \in stageB \ stageB' :
       /\ ( \/ selectedRecipe = NoRecipe
            \/ selectedRecipe[1].recipeName # t.recipe.recipeName ) =>
             selectedRecipe' = selectedRecipe
       /\ t.recipe.overview[1] # nSearches => recipes' = recipes
    ]_vars

\* C33: when the details of a recipe of the current list are merged, every
\* entry keeps its own overview fields and the list keeps its length.
C33_CollidingEntriesStayDistinct ==
  [][\A t \in stageB \ stageB' :
       (\E j \in DOMAIN recipes : recipes[j] = t.recipe) =>
          /\ Len(recipes') = Len(recipes)
          /\ \A k \in DOMAIN recipes :
                /\ recipes'[k].recipeName = recipes[k].recipeName
                /\ recipes'[k].overview = recipes[k].overview
    ]_vars

\* C34: when a getRecipeDetails call resolves, every list entry of its
\* recipeName carries the detail fields of that response and of no other;
\* when it rejects, the list is left as it is.
C34_LastSuccessfulDetailsWin ==
  [][\A t \in stageB \ stageB' :
       /\ lastOutcome' = "resolved" =>
             \A k \in DOMAIN recipes :
                recipes[k].recipeName = t.recipe.recipeName =>
                   /\ recipes'[k].isDetailsLoaded
                   /\ recipes'[k].instructions = <<"details", t.call>>
                   /\ recipes'[k].substitutions = <<"details", t.call>>
       /\ lastOutcome' = "rejected" => recipes' = recipes
    ]_vars

\* The details of one call are merged into the list while another call for
\* the same recipe of the same search is still in flight.
C34_Witness ==
  \E t \in stageB : \E k \in DOMAIN recipes :
     /\ recipes[k].recipeName = t.recipe.recipeName
     /\ recipes[k].overview = t.recipe.overview
     /\ recipes[k].isDetailsLoaded
     /\ recipes[k].instructions # <<"details", t.call>>

\* C35: a list entry with isDetailsLoaded keeps its flag and its detail
\* fields in every step that does not start a search, a selection leaves the
\* list as it is, and selecting an entry with isDetailsLoaded issues no
\* getRecipeDetails call.
C35_LoadedDetailsStay ==
  [][ /\ \A k \in DOMAIN recipes :
           recipes[k].isDetailsLoaded =>
              \/ ~isLoading /\ isLoading'
              \/ /\ k \in DOMAIN recipes'
                 /\ recipes'[k].isDetailsLoaded
                 /\ recipes'[k].instructions # <<>>
                 /\ recipes'[k].substitutions # <<>>
      /\ \A n \in RecipeNames :
           selectCount'[n] = selectCount[n] + 1 =>
              /\ recipes' = recipes
              /\ selectedRecipe'[1].isDetailsLoaded =>
                    stageB' = stageB /\ detailCalls' = detailCalls
    ]_vars

\* A recipe whose details are loaded has been selected a second time: one
\* getRecipeDetails call was made for two selections.
C35_Witness ==
  /\ selectedRecipe # NoRecipe
  /\ selectedRecipe[1].isDetailsLoaded
  /\ selectCount[selectedRecipe[1].recipeName] = 2
  /\ detailCalls[selectedRecipe[1].recipeName] = 1
  /\ stageB = {}
  /\ \E k \in DOMAIN recipes : recipes[k] = selectedRecipe[1]

\* C39: whenever a search has been made and isLoading is false, progress is 100.
C39_ListVisibleAfterSearch ==
  (nSearches > 0 /\ ~isLoading) => progress = ProgressDone

====
